---- MODULE Spec2Model ----
(***************************************************************************)
(* Support Copilot (src/app.py): an in-memory SQLite store of issues and   *)
(* conversations, the analysis / template / summary functions over it, the *)
(* Streamlit script main() and the simulated dispatch wrapper              *)
(* api_endpoint().                                                         *)
(*                                                                         *)
(* Text that the code inspects character by character (descriptions,       *)
(* messages) is a sequence of one-character strings; text the code only    *)
(* copies or compares whole (ids, senders, resolutions, rendered lines) is *)
(* a string.  A rendered text is the sequence of its lines, each line      *)
(* standing for the line followed by "\n".                                 *)
(***************************************************************************)
EXTENDS Integers, Sequences, FiniteSets, TLC

VARIABLES pc, conn, now, customer_id, product_id, issue_description,
          severity, analysis, template, issue_id, summary,
          request, response, lastFiled

vars == <<pc, conn, now, customer_id, product_id, issue_description,
          severity, analysis, template, issue_id, summary,
          request, response, lastFiled>>

(***************************************************************************)
(* Bounds of the model.                                                    *)
(***************************************************************************)
MaxTokens == 2
MaxIssues == 2
MaxMsgs == 2

(***************************************************************************)
(* Constants of the program.                                               *)
(***************************************************************************)
SummaryChars == 50
ThresholdHours == 24
BudgetSeconds == 15

\* Python's None, as stored in a TEXT column or held by a local.
None == "<None>"

Min(a, b) == IF a < b THEN a ELSE b

(***************************************************************************)
(* Characters and text.                                                    *)
(***************************************************************************)
UpperLetters == <<"A","B","C","D","E","F","G","H","I","J","K","L","M",
                  "N","O","P","Q","R","S","T","U","V","W","X","Y","Z">>
LowerLetters == <<"a","b","c","d","e","f","g","h","i","j","k","l","m",
                  "n","o","p","q","r","s","t","u","v","w","x","y","z">>

\* str.lower() on one character
LowerChar(c) ==
    IF \E i \in 1..26 : UpperLetters[i] = c
    THEN LowerLetters[CHOOSE i \in 1..26 : UpperLetters[i] = c]
    ELSE c

lower_identity(s) == s

\* issue_description.lower()
lower(s) == [i \in 1..Len(s) |-> LowerChar(s[i])]

\* word in text  (substring test)
Contains(text, word) ==
    \E i \in 1..(Len(text) - Len(word) + 1) :
        SubSeq(text, i, i + Len(word) - 1) = word

\* interpolation of a text value into an f-string
RECURSIVE Str(_)
Str(s) == IF s = <<>> THEN "" ELSE Head(s) \o Str(Tail(s))

(***************************************************************************)
(* Time.  A datetime is [day, sec, us]: the calendar day (counted in days  *)
(* of July 2025), the second of the day and the microsecond.  sqlite3      *)
(* stores a datetime parameter as the text of isoformat(" "), which has    *)
(* the fixed-width fields YYYY-MM-DD HH:MM:SS and the fraction .ffffff     *)
(* only when the microsecond is not 0.  A stored timestamp is the sequence *)
(* of these fields (the date as one field); SQLite compares two TEXT       *)
(* values byte by byte, which on fixed-width fields is the comparison of   *)
(* the field sequences, a proper prefix being the smaller.                 *)
(***************************************************************************)
DateTime(d, s, u) == [day |-> d, sec |-> s, us |-> u]

\* datetime - timedelta(hours=h)
MinusHours(dt, h) ==
    LET total == dt.day * 86400 + dt.sec - h * 3600
    IN  [day |-> total \div 86400, sec |-> total % 86400, us |-> dt.us]

\* sqlite3's adapter for datetime parameters: val.isoformat(" ")
adapt_datetime(dt) ==
    <<dt.day, dt.sec \div 3600, (dt.sec % 3600) \div 60, dt.sec % 60>>
        \o (IF dt.us = 0 THEN <<>> ELSE <<dt.us>>)

TextLessOrEqual(a, b) ==
    \/ a = b
    \/ \E k \in 1..Min(Len(a), Len(b)) :
          /\ a[k] < b[k]
          /\ \A j \in 1..(k - 1) : a[j] = b[j]
    \/ /\ Len(a) < Len(b)
       /\ \A j \in 1..Len(a) : a[j] = b[j]

\* SQL  a < b  on two TEXT values (BINARY collation)
TextLess(a, b) ==
    \/ \E k \in 1..Min(Len(a), Len(b)) :
          /\ a[k] < b[k]
          /\ \A j \in 1..(k - 1) : a[j] = b[j]
    \/ /\ Len(a) < Len(b)
       /\ \A j \in 1..Len(a) : a[j] = b[j]

(***************************************************************************)
(* The store: the two tables of init_db(), each in rowid order.            *)
(***************************************************************************)
LoginFailure == <<"L","o","g","i","n"," ","f","a","i","l","u","r","e">>
PaymentIssue == <<"P","a","y","m","e","n","t"," ","i","s","s","u","e">>
UIGlitch     == <<"U","I"," ","g","l","i","t","c","h">>

IssueRow(id, cust, desc, created, sev, st, prod, res) ==
    [id |-> id, customer_id |-> cust, issue_description |-> desc,
     created_at |-> created, severity |-> sev, status |-> st,
     product_id |-> prod, resolution |-> res]

ConversationRow(iid, msg, snd, ts) ==
    [issue_id |-> iid, message |-> msg, sender |-> snd, timestamp |-> ts]

init_db ==
    [issues |-> <<
        IssueRow(1, "CUST001", LoginFailure, <<11, 10, 0, 0>>, "High", "Open",
                 "PROD001", None),
        IssueRow(2, "CUST001", PaymentIssue, <<12, 8, 0, 0>>, "Normal", "Open",
                 "PROD002", None),
        IssueRow(3, "CUST002", UIGlitch, <<10, 15, 0, 0>>, "Low", "Resolved",
                 "PROD001", "Restart the application") >>,
     conversations |-> << >>]

\* c.lastrowid of an INSERT into the AUTOINCREMENT table
NextRowId(store) ==
    IF store.issues = <<>> THEN 1
    ELSE store.issues[Len(store.issues)].id + 1

insert_issue_overwrite(store, row) ==
    [store EXCEPT !.issues =
        IF store.issues = <<>> THEN <<row>>
        ELSE [store.issues EXCEPT ![Len(store.issues)] = row]]

\* INSERT INTO issues (...)
insert_issue(store, row) ==
    [store EXCEPT !.issues = Append(store.issues, row)]

\* INSERT INTO conversations (...)
insert_conversation(store, row) ==
    [store EXCEPT !.conversations = Append(store.conversations, row)]

(***************************************************************************)
(* analyze_issue                                                           *)
(***************************************************************************)
count_all_issues(store, cust) == Len(store.issues)

\* SELECT COUNT(*) FROM issues WHERE customer_id = ?
count_issues(store, cust) ==
    Cardinality({i \in DOMAIN store.issues :
                    store.issues[i].customer_id = cust})

find_any_status(store, prod) ==
    SelectSeq(store.issues, LAMBDA r : r.product_id = prod)

\* SELECT issue_description, resolution FROM issues
\*  WHERE product_id = ? AND status = 'Resolved'
find_resolved(store, prod) ==
    SelectSeq(store.issues,
              LAMBDA r : r.product_id = prod /\ r.status = "Resolved")

\* the keywords dict, in its insertion order
keywords == <<
    [sev |-> "High",
     words |-> << <<"f","a","i","l","u","r","e">>, <<"c","r","a","s","h">>,
                  <<"u","r","g","e","n","t">> >>],
    [sev |-> "Normal",
     words |-> << <<"i","s","s","u","e">>, <<"p","r","o","b","l","e","m">> >>],
    [sev |-> "Low",
     words |-> << <<"g","l","i","t","c","h">>, <<"m","i","n","o","r">> >>] >>

\* the for loop with break over keywords.items(), from entry k on
RECURSIVE ScanKeywords(_, _)
ScanKeywords(lowered, k) ==
    IF k > Len(keywords) THEN "Normal"
    ELSE IF \E w \in 1..Len(keywords[k].words) :
                Contains(lowered, keywords[k].words[w])
         THEN keywords[k].sev
         ELSE ScanKeywords(lowered, k + 1)

determine_severity(description) == ScanKeywords(lower(description), 1)

count_critical_inclusive(store, cust, clock) ==
    LET threshold == adapt_datetime(MinusHours(clock, ThresholdHours))
    IN  Cardinality({i \in DOMAIN store.issues :
            /\ store.issues[i].customer_id = cust
            /\ store.issues[i].severity = "High"
            /\ store.issues[i].status = "Open"
            /\ TextLessOrEqual(store.issues[i].created_at, threshold)})

\* SELECT COUNT(*) FROM issues WHERE customer_id = ? AND severity = 'High'
\*  AND status = 'Open' AND created_at < ?
count_critical(store, cust, clock) ==
    LET threshold == adapt_datetime(MinusHours(clock, ThresholdHours))
    IN  Cardinality({i \in DOMAIN store.issues :
            /\ store.issues[i].customer_id = cust
            /\ store.issues[i].severity = "High"
            /\ store.issues[i].status = "Open"
            /\ TextLess(store.issues[i].created_at, threshold)})

\* res if res else 'No resolution provided'
ResolutionOrDefault(res) ==
    IF res = None \/ res = "" THEN "No resolution provided" ELSE res

analyze_issue(description, cust, prod, store, clock) ==
    LET past_issues     == count_issues(store, cust)
        similar_issues  == find_resolved(store, prod)
        sev             == determine_severity(description)
        critical_issues == count_critical(store, cust, clock) > 0
    IN  [severity |-> sev,
         analysis |->
            [past_issues_count |-> past_issues,
             similar_issues |->
                [i \in 1..Len(similar_issues) |->
                    [description |-> similar_issues[i].issue_description,
                     resolution |->
                        ResolutionOrDefault(similar_issues[i].resolution)]],
             severity |-> sev,
             has_critical_issues |-> critical_issues]]

(***************************************************************************)
(* generate_template: the lines of the f-string, the first one empty.      *)
(***************************************************************************)
NoticeText == "Note: Critical issues detected that need urgent attention."

\* - {f"Note: ..." if analysis['has_critical_issues'] else ""}
NoticeLine(a) == "- " \o (IF a.has_critical_issues THEN NoticeText ELSE "")

\* 1. {analysis['similar_issues'][0]['resolution'] if analysis['similar_issues'] else ...}
StepLine(a) ==
    "1. " \o (IF a.similar_issues # <<>>
              THEN a.similar_issues[1].resolution
              ELSE "Please provide more details.")

PastIssuesLine(a) ==
    "- Past Issues: " \o ToString(a.past_issues_count) \o " previous issues"

generate_template(description, a) ==
    << "",
       "Dear Customer,",
       "",
       "Thank you for reaching out regarding: \"" \o Str(description) \o "\".",
       "",
       "Based on our analysis:",
       "- Issue Severity: " \o a.severity,
       PastIssuesLine(a),
       NoticeLine(a),
       "",
       "Recommended Steps:",
       StepLine(a),
       "",
       "Best regards,",
       "Support Team" >>

\* the keys the f-string subscripts; a missing one raises KeyError
TemplateKeys ==
    {"severity", "past_issues_count", "has_critical_issues", "similar_issues"}

(***************************************************************************)
(* summarize_conversation                                                  *)
(***************************************************************************)
\* the place of a new row in an ordered result: behind every row that does
\* not sort after it
RECURSIVE InsertOrdered(_, _)
InsertOrdered(sorted, row) ==
    IF sorted = <<>> THEN <<row>>
    ELSE IF TextLess(row.timestamp, sorted[Len(sorted)].timestamp)
         THEN Append(InsertOrdered(SubSeq(sorted, 1, Len(sorted) - 1), row),
                     sorted[Len(sorted)])
         ELSE Append(sorted, row)

RECURSIVE SortRows(_)
SortRows(rows) ==
    IF rows = <<>> THEN <<>>
    ELSE InsertOrdered(SortRows(SubSeq(rows, 1, Len(rows) - 1)),
                       rows[Len(rows)])

no_order(rows) == rows

\* ORDER BY timestamp: SQLite's sorter leaves rows of equal key in the
\* order the scan produced them (rowid order)
order_by_timestamp(rows) == SortRows(rows)

\* SELECT message, sender FROM conversations WHERE issue_id = ? ORDER BY timestamp
list_messages(store, iid) ==
    order_by_timestamp(
        SelectSeq(store.conversations, LAMBDA r : r.issue_id = iid))

summary_line_marks_cut(msg, sender) ==
    "- " \o sender \o ": " \o Str(SubSeq(msg, 1, Min(SummaryChars, Len(msg))))
         \o (IF Len(msg) > SummaryChars THEN "..." ELSE "")

\* f"- {sender}: {msg[:50]}...\n"
summary_line(msg, sender) ==
    "- " \o sender \o ": " \o Str(SubSeq(msg, 1, Min(SummaryChars, Len(msg))))
         \o "..."

summarize_conversation(iid, store) ==
    LET messages == list_messages(store, iid)
    IN  <<"Conversation Summary:">> \o
        [i \in 1..Len(messages) |->
            summary_line(messages[i].message, messages[i].sender)]

(***************************************************************************)
(* api_endpoint                                                            *)
(***************************************************************************)
\* dict.get(key, default)
Get(d, k, default) == IF k \in DOMAIN d THEN d[k] ELSE default

EmptyDict == << >>

\* the parameters analyze_issue declares, none with a default
AnalyzeIssueParams == 4

Raised(exc) == [raised |-> exc, status |-> "", data |-> EmptyDict, error |-> ""]

\* the elapsed-time check before return
Timed(data, elapsed) ==
    IF elapsed > BudgetSeconds
    THEN [raised |-> "", status |-> "error", data |-> data,
          error |-> "Response time exceeded 15 seconds"]
    ELSE [raised |-> "", status |-> "success", data |-> data, error |-> ""]

api_endpoint(endpoint, data, elapsed, clock) ==
    IF endpoint = "/analyze_issue"
    THEN LET store == init_db
             args  == << Get(data, "issue_description", << >>),
                         Get(data, "customer_id", ""),
                         Get(data, "product_id", "") >>
         IN  IF Len(args) # AnalyzeIssueParams
             THEN Raised("TypeError")
             ELSE LET r == analyze_issue(args[1], args[2], args[3], store, clock)
                  IN  Timed([severity |-> r.severity, analysis |-> r.analysis],
                            elapsed)
    ELSE IF endpoint = "/generate_template"
    THEN LET a == Get(data, "analysis", EmptyDict)
         IN  IF ~(TemplateKeys \subseteq DOMAIN a)
             THEN Raised("KeyError")
             ELSE Timed([template |->
                            generate_template(
                                Get(data, "issue_description", << >>), a)],
                        elapsed)
    ELSE IF endpoint = "/summarize"
    THEN LET store == init_db
         IN  Timed([summary |->
                       summarize_conversation(Get(data, "issue_id", 0), store)],
                   elapsed)
    ELSE Timed(EmptyDict, elapsed)

(***************************************************************************)
(* Values of the locals before they are assigned.                          *)
(***************************************************************************)
NoAnalysis == [past_issues_count |-> 0, similar_issues |-> << >>,
               severity |-> None, has_critical_issues |-> FALSE]
NoRequest  == [endpoint |-> "", data |-> EmptyDict, elapsed |-> 0]
NoResponse == [raised |-> "", status |-> "", data |-> EmptyDict, error |-> ""]
NoFiled    == [id |-> 0, customer_id |-> "", message |-> << >>]

(***************************************************************************)
(* Inputs of the session: what the form and the callers of api_endpoint    *)
(* send, and what the clock reads.                                         *)
(***************************************************************************)
DigitChars == <<"0","1","2","3","4","5","6","7","8","9">>

\* a text of n characters, no two neighbours alike
Digits(n) == [i \in 1..n |-> DigitChars[(i % 10) + 1]]

Customers == {"CUST001", "CUST002", "CUST999"}
Products  == {"PROD001", "PROD002", ""}
FormDescriptions == {LoginFailure, UIGlitch, << >>, Digits(SummaryChars + 1)}

\* readings of datetime.now() around 24 hours after the first seeded issue
Clock == {DateTime(12, 35999, 0), DateTime(12, 36000, 0),
          DateTime(12, 36000, 1), DateTime(12, 36001, 0)}

\* a is not later than b
NotLater(a, b) ==
    \/ a.day < b.day
    \/ a.day = b.day /\ a.sec < b.sec
    \/ a.day = b.day /\ a.sec = b.sec /\ a.us <= b.us

Endpoints == {"/analyze_issue", "/generate_template", "/summarize", "/health"}

ApiData ==
    { EmptyDict,
      [issue_description |-> LoginFailure, customer_id |-> "CUST001",
       product_id |-> "PROD001"],
      [customer_id |-> "CUST002", product_id |-> "PROD001"],
      [issue_description |-> UIGlitch,
       analysis |-> analyze_issue(UIGlitch, "CUST002", "PROD001", init_db,
                                  DateTime(12, 36000, 0)).analysis],
      [issue_id |-> 1],
      [issue_id |-> 4] }

Elapsed == {0, BudgetSeconds, BudgetSeconds + 1}

(***************************************************************************)
(* main(): one run of the Streamlit script, statement by statement.  The   *)
(* script runs from the top on every interaction of the session.           *)
(***************************************************************************)
Init ==
    /\ pc = "idle"
    /\ conn = [issues |-> << >>, conversations |-> << >>]
    /\ now = DateTime(12, 35999, 0)
    /\ customer_id = ""
    /\ product_id = ""
    /\ issue_description = << >>
    /\ severity = None
    /\ analysis = NoAnalysis
    /\ template = << >>
    /\ issue_id = 0
    /\ summary = << >>
    /\ request = NoRequest
    /\ response = NoResponse
    /\ lastFiled = NoFiled

\* conn = init_db()
MainInitDb ==
    /\ pc = "idle"
    /\ pc' = "form"
    /\ conn' = init_db
    /\ UNCHANGED <<now, customer_id, product_id, issue_description, severity,
                   analysis, template, issue_id, summary, request, response,
                   lastFiled>>

\* the run of an interaction that is not a submission: submit_button is False
MainNoSubmit ==
    /\ pc = "form"
    /\ pc' = "idle"
    /\ UNCHANGED <<conn, now, customer_id, product_id, issue_description,
                   severity, analysis, template, issue_id, summary, request,
                   response, lastFiled>>

\* submit_button: severity, analysis = analyze_issue(...)
MainAnalyze ==
    /\ pc = "form"
    /\ \E c \in Customers, p \in Products, d \in FormDescriptions, t \in Clock :
          /\ NotLater(now, t)
          /\ now' = t
          /\ customer_id' = c
          /\ product_id' = p
          /\ issue_description' = d
          /\ LET r == analyze_issue(d, c, p, conn, t)
             IN  /\ severity' = r.severity
                 /\ analysis' = r.analysis
    /\ pc' = "analyzed"
    /\ UNCHANGED <<conn, template, issue_id, summary, request, response,
                   lastFiled>>

\* template = generate_template(issue_description, analysis)
MainTemplate ==
    /\ pc = "analyzed"
    /\ template' = generate_template(issue_description, analysis)
    /\ pc' = "templated"
    /\ UNCHANGED <<conn, now, customer_id, product_id, issue_description,
                   severity, analysis, issue_id, summary, request, response,
                   lastFiled>>

\* the two INSERTs and conn.commit()
MainStore ==
    /\ pc = "templated"
    /\ \E t1 \in Clock, t2 \in Clock :
          /\ NotLater(now, t1)
          /\ NotLater(t1, t2)
          /\ now' = t2
          /\ LET id     == NextRowId(conn)
                 stored == insert_issue(conn,
                              IssueRow(id, customer_id, issue_description,
                                       adapt_datetime(t1), severity, "Open",
                                       product_id, None))
             IN  /\ issue_id' = id
                 /\ conn' = insert_conversation(stored,
                               ConversationRow(id, issue_description, "Customer",
                                               adapt_datetime(t2)))
                 /\ lastFiled' = [id |-> id, customer_id |-> customer_id,
                                  message |-> issue_description]
    /\ pc' = "stored"
    /\ UNCHANGED <<customer_id, product_id, issue_description, severity,
                   analysis, template, summary, request, response>>

\* summary = summarize_conversation(issue_id, conn)
MainSummary ==
    /\ pc = "stored"
    /\ summary' = summarize_conversation(issue_id, conn)
    /\ pc' = "summarized"
    /\ UNCHANGED <<conn, now, customer_id, product_id, issue_description,
                   severity, analysis, template, issue_id, request, response,
                   lastFiled>>

\* main() returns: its locals are gone, the connection object is dropped
\* when the next run binds conn again
MainReturn ==
    /\ pc = "summarized"
    /\ pc' = "idle"
    /\ customer_id' = ""
    /\ product_id' = ""
    /\ issue_description' = << >>
    /\ severity' = None
    /\ analysis' = NoAnalysis
    /\ template' = << >>
    /\ issue_id' = 0
    /\ summary' = << >>
    /\ UNCHANGED <<conn, now, request, response, lastFiled>>

\* a caller invokes api_endpoint(endpoint, data) and holds what it returns
ApiCall ==
    /\ pc = "idle"
    /\ \E e \in Endpoints, d \in ApiData, el \in Elapsed, t \in Clock :
          /\ NotLater(now, t)
          /\ now' = t
          /\ request' = [endpoint |-> e, data |-> d, elapsed |-> el]
          /\ response' = api_endpoint(e, d, el, t)
    /\ pc' = "responded"
    /\ UNCHANGED <<conn, customer_id, product_id, issue_description, severity,
                   analysis, template, issue_id, summary, lastFiled>>

\* the caller is done with the response
ApiDone ==
    /\ pc = "responded"
    /\ pc' = "idle"
    /\ request' = NoRequest
    /\ response' = NoResponse
    /\ UNCHANGED <<conn, now, customer_id, product_id, issue_description,
                   severity, analysis, template, issue_id, summary, lastFiled>>

Next ==
    \/ MainInitDb
    \/ MainNoSubmit
    \/ MainAnalyze
    \/ MainTemplate
    \/ MainStore
    \/ MainSummary
    \/ MainReturn
    \/ ApiCall
    \/ ApiDone

Spec == Init /\ [][Next]_vars

(***************************************************************************)
(* The core functions on their own: analyze_issue, generate_template and   *)
(* summarize_conversation applied to stores and arguments drawn from       *)
(* bounded sets.                                                           *)
(***************************************************************************)
Tokens ==
    { <<"f","a","i","l","u","r","e">>, <<"c","r","a","s","h">>,
      <<"u","r","g","e","n","t">>, <<"i","s","s","u","e">>,
      <<"p","r","o","b","l","e","m">>, <<"g","l","i","t","c","h">>,
      <<"m","i","n","o","r">>,
      <<"C","R","A","S","H">>, <<"M","i","n","o","r">>, <<"I","s","s","u","E">>,
      <<"g","l","i">>, <<"t","c","h">>, <<" ">>, <<"o","k">> }

\* the texts of at most n tokens
RECURSIVE Texts(_)
Texts(n) ==
    IF n = 0 THEN { << >> }
    ELSE Texts(n - 1) \cup {t \o w : t \in Texts(n - 1), w \in Tokens}

\* the tables of at most n rows over a set of rows-without-id
Tables(fields, n) ==
    UNION { [1..k -> fields] : k \in 0..n }

EscalationFields ==
    [customer_id : {"CUST001", "CUST002"},
     severity : {"High", "Normal"},
     status : {"Open", "Resolved"},
     created_at : { <<11, 9, 59, 59>>, <<11, 10, 0, 0>>, <<11, 10, 0, 0, 1>> }]

SimilarFields ==
    [product_id : {"PROD001", "PROD002"},
     state : { <<"Open", None>>, <<"Open", "Clear the cache">>,
               <<"Resolved", None>>, <<"Resolved", "">>,
               <<"Resolved", "Restart the application">>,
               <<"Resolved", "Clear the cache">> }]

ConversationFields ==
    [issue_id : {1, 2},
     message : { <<"h","i">>, <<"o","k">> },
     sender : {"Customer", "Agent"},
     timestamp : { <<12, 8, 0, 0>>, <<12, 8, 0, 0, 5>> }]

MessageLengths ==
    {0, 1, 30, SummaryChars - 1, SummaryChars, SummaryChars + 1,
     2 * SummaryChars + 20}

CoreDefaults ==
    /\ pc = "core"
    /\ severity = None
    /\ analysis = NoAnalysis
    /\ template = << >>
    /\ summary = << >>
    /\ request = NoRequest
    /\ response = NoResponse
    /\ lastFiled = NoFiled

\* descriptions against the seeded store
InitClassify ==
    /\ conn = init_db
    /\ issue_description \in Texts(MaxTokens)
    /\ customer_id = "CUST001"
    /\ product_id = "PROD001"
    /\ now = DateTime(12, 36000, 0)
    /\ issue_id = 1

\* stores of issues that differ in owner, severity, status and age
InitEscalation ==
    /\ \E t \in Tables(EscalationFields, MaxIssues) :
          conn = [issues |->
                    [i \in DOMAIN t |->
                        IssueRow(i, t[i].customer_id, LoginFailure,
                                 t[i].created_at, t[i].severity, t[i].status,
                                 "PROD001", None)],
                  conversations |-> << >>]
    /\ issue_description = LoginFailure
    /\ customer_id \in {"CUST001", "CUST002"}
    /\ product_id = "PROD001"
    /\ now \in {DateTime(12, 36000, 0), DateTime(12, 36000, 1)}
    /\ issue_id = 1

\* stores of issues that differ in product, status and resolution
InitSimilar ==
    /\ \E t \in Tables(SimilarFields, MaxIssues) :
          conn = [issues |->
                    [i \in DOMAIN t |->
                        IssueRow(i, "CUST001", UIGlitch, <<10, 15, 0, 0>>,
                                 "Low", t[i].state[1], t[i].product_id,
                                 t[i].state[2])],
                  conversations |-> << >>]
    /\ issue_description = UIGlitch
    /\ customer_id = "CUST002"
    /\ product_id \in {"PROD001", "PROD002", "PROD999"}
    /\ now = DateTime(12, 36000, 0)
    /\ issue_id = 1

\* stores of conversations that differ in issue, text, sender and time
InitConversation ==
    /\ \E t \in Tables(ConversationFields, MaxMsgs) :
          conn = [issues |-> init_db.issues,
                  conversations |->
                    [i \in DOMAIN t |->
                        ConversationRow(t[i].issue_id, t[i].message,
                                        t[i].sender, t[i].timestamp)]]
    /\ issue_description = << >>
    /\ customer_id = "CUST001"
    /\ product_id = "PROD001"
    /\ now = DateTime(12, 36000, 0)
    /\ issue_id \in {1, 2, 3}

\* one message of each length around the cut
InitMessage ==
    /\ \E n \in MessageLengths, s \in {"Customer", "Agent"} :
          conn = [issues |-> init_db.issues,
                  conversations |->
                    << ConversationRow(1, Digits(n), s, <<12, 8, 0, 0>>) >>]
    /\ issue_description = << >>
    /\ customer_id = "CUST001"
    /\ product_id = "PROD001"
    /\ now = DateTime(12, 36000, 0)
    /\ issue_id = 1

InitCore ==
    /\ CoreDefaults
    /\ \/ InitClassify
       \/ InitEscalation
       \/ InitSimilar
       \/ InitConversation
       \/ InitMessage

CoreAnalyze ==
    /\ pc = "core"
    /\ LET r == analyze_issue(issue_description, customer_id, product_id,
                              conn, now)
       IN  /\ severity' = r.severity
           /\ analysis' = r.analysis
    /\ pc' = "core_analyzed"
    /\ UNCHANGED <<conn, now, customer_id, product_id, issue_description,
                   template, issue_id, summary, request, response, lastFiled>>

CoreTemplate ==
    /\ pc = "core_analyzed"
    /\ template' = generate_template(issue_description, analysis)
    /\ pc' = "core_templated"
    /\ UNCHANGED <<conn, now, customer_id, product_id, issue_description,
                   severity, analysis, issue_id, summary, request, response,
                   lastFiled>>

CoreSummarize ==
    /\ pc = "core_templated"
    /\ summary' = summarize_conversation(issue_id, conn)
    /\ pc' = "core_done"
    /\ UNCHANGED <<conn, now, customer_id, product_id, issue_description,
                   severity, analysis, template, issue_id, request, response,
                   lastFiled>>

NextCore ==
    \/ CoreAnalyze
    \/ CoreTemplate
    \/ CoreSummarize

SpecCore == InitCore /\ [][NextCore]_vars

(***************************************************************************)
(* Properties of the core functions (checked under SpecCore).              *)
(***************************************************************************)
HighWords   == { <<"f","a","i","l","u","r","e">>, <<"c","r","a","s","h">>,
                 <<"u","r","g","e","n","t">> }
NormalWords == { <<"i","s","s","u","e">>, <<"p","r","o","b","l","e","m">> }
LowWords    == { <<"g","l","i","t","c","h">>, <<"m","i","n","o","r">> }

\* some word of the set occurs in the text, letter case ignored
Mentions(text, words) ==
    \E w \in words : \E i \in 1..(Len(text) - Len(w) + 1) :
        \A j \in 1..Len(w) : LowerChar(text[i + j - 1]) = w[j]

\* C1: the severity computed by analyze_issue is the first of High, Normal,
\* Low whose keyword set has a case-insensitive substring match in the
\* description, and Normal when no keyword matches (the empty description
\* included); High wins over Low, and Low keywords alone yield Low.
SeverityIsFirstMatch ==
    pc \in {"core_analyzed", "core_templated", "core_done"} =>
        /\ severity =
              IF Mentions(issue_description, HighWords) THEN "High"
              ELSE IF Mentions(issue_description, NormalWords) THEN "Normal"
              ELSE IF Mentions(issue_description, LowWords) THEN "Low"
              ELSE "Normal"
        /\ analysis.severity = severity
        /\ (Mentions(issue_description, HighWords)
              /\ Mentions(issue_description, LowWords) => severity = "High")
        /\ (issue_description = << >> => severity = "Normal")

\* a description with a Low keyword and, in capitals, a High keyword
SeverityWitness ==
    /\ pc = "core_analyzed"
    /\ issue_description = <<"M","i","n","o","r","C","R","A","S","H">>
    /\ severity = "High"

\* the datetime a stored timestamp text denotes
ParseTimestamp(text) ==
    DateTime(text[1], text[2] * 3600 + text[3] * 60 + text[4],
             IF Len(text) = 5 THEN text[5] ELSE 0)

\* seconds from the start of day 0 to the datetime's whole second
SecondsOf(dt) == dt.day * 86400 + dt.sec

\* the stored timestamp is strictly earlier than clock - 24 hours
OlderThanADay(text, clock) ==
    LET created == ParseTimestamp(text)
    IN  \/ SecondsOf(created) + 86400 < SecondsOf(clock)
        \/ /\ SecondsOf(created) + 86400 = SecondsOf(clock)
           /\ created.us < clock.us

ExactlyADayOld(text, clock) ==
    LET created == ParseTimestamp(text)
    IN  /\ SecondsOf(created) + 86400 = SecondsOf(clock)
        /\ created.us = clock.us

\* C2: has_critical_issues is true if and only if the store holds an issue
\* of the customer with severity High, status Open and created_at strictly
\* earlier than now minus 24 hours; an issue exactly 24 hours old, an issue
\* of another customer, a Resolved issue and a non-High issue do not count.
EscalationFlag ==
    pc \in {"core_analyzed", "core_templated", "core_done"} =>
        (analysis.has_critical_issues <=>
            \E i \in DOMAIN conn.issues :
                /\ conn.issues[i].customer_id = customer_id
                /\ conn.issues[i].severity = "High"
                /\ conn.issues[i].status = "Open"
                /\ OlderThanADay(conn.issues[i].created_at, now))

\* the customer's only Open/High issue is exactly 24 hours old: no flag
EscalationWitness ==
    /\ pc = "core_analyzed"
    /\ ~analysis.has_critical_issues
    /\ \E i \in DOMAIN conn.issues :
          /\ conn.issues[i].customer_id = customer_id
          /\ conn.issues[i].severity = "High"
          /\ conn.issues[i].status = "Open"
          /\ ExactlyADayOld(conn.issues[i].created_at, now)

\* what generate_template renders for the analysis with the flag set
FlaggedTemplate ==
    generate_template(issue_description,
                      [analysis EXCEPT !.has_critical_issues = TRUE])

\* s without its k-th element
Without(s, k) == SubSeq(s, 1, k - 1) \o SubSeq(s, k + 1, Len(s))

\* C3: the critical-issue notice line is emitted exactly once when
\* has_critical_issues is true, and when it is false the rendered text is
\* the true-case text with that one line removed, nothing left in its place.
NoticeLineSuppressed ==
    pc \in {"core_templated", "core_done"} =>
        LET notice == "- " \o NoticeText
            at     == {k \in DOMAIN FlaggedTemplate :
                           FlaggedTemplate[k] = notice}
        IN  /\ Cardinality(at) = 1
            /\ IF analysis.has_critical_issues
               THEN template = FlaggedTemplate
               ELSE template = Without(FlaggedTemplate, CHOOSE k \in at : TRUE)

\* the issues that are Resolved and of the product, by position in the table
ResolvedOfProduct ==
    {i \in DOMAIN conn.issues :
        /\ conn.issues[i].product_id = product_id
        /\ conn.issues[i].status = "Resolved"}

\* C4: the recommended step of the template rendered from analyze_issue's
\* result is the resolution of the first Resolved issue of the product in
\* table order ('No resolution provided' when that resolution is empty or
\* absent), and 'Please provide more details.' when there is none; issues of
\* other products and Open issues do not contribute.
RecommendedStep ==
    pc \in {"core_templated", "core_done"} =>
        /\ Len(template) = 15
        /\ template[11] = "Recommended Steps:"
        /\ template[13] = ""
        /\ template[12] = "1. " \o
              (IF ResolvedOfProduct = {}
               THEN "Please provide more details."
               ELSE LET first == CHOOSE i \in ResolvedOfProduct :
                                    \A j \in ResolvedOfProduct : i <= j
                        res   == conn.issues[first].resolution
                    IN  IF res = None \/ res = ""
                        THEN "No resolution provided"
                        ELSE res)

\* an Open issue of the product with a resolution text comes first, then a
\* Resolved one of the product: the step is the second row's resolution
RecommendedStepWitness ==
    /\ pc = "core_templated"
    /\ Len(conn.issues) = 2
    /\ conn.issues[1].product_id = product_id
    /\ conn.issues[1].status = "Open"
    /\ conn.issues[1].resolution = "Clear the cache"
    /\ conn.issues[2].product_id = product_id
    /\ conn.issues[2].status = "Resolved"
    /\ template[12] = "1. Restart the application"

\* the conversation rows of the issue, by position in the table
MessagesOfIssue ==
    {i \in DOMAIN conn.conversations :
        conn.conversations[i].issue_id = issue_id}

\* the first n characters of a text, all of it when it is shorter
FirstChars(text, n) ==
    [k \in 1..(IF Len(text) < n THEN Len(text) ELSE n) |-> text[k]]

\* the place of row i among the messages of the issue: behind the earlier
\* ones and behind those of the same time inserted before it
PlaceOf(i) ==
    1 + Cardinality({j \in MessagesOfIssue :
            LET a == ParseTimestamp(conn.conversations[j].timestamp)
                b == ParseTimestamp(conn.conversations[i].timestamp)
            IN  \/ SecondsOf(a) < SecondsOf(b)
                \/ SecondsOf(a) = SecondsOf(b) /\ a.us < b.us
                \/ SecondsOf(a) = SecondsOf(b) /\ a.us = b.us /\ j < i})

\* C5: each body line of the summary is '- {sender}: {prefix}...' with
\* prefix the first 50 characters of the message (all of it when shorter)
\* and '...' appended whatever the length, so no line carries more than 50
\* characters of message text.
SummaryLineFormat ==
    pc = "core_done" =>
        \A i \in MessagesOfIssue :
            LET row  == conn.conversations[i]
                line == summary[1 + PlaceOf(i)]
            IN  /\ line = "- " \o row.sender \o ": "
                            \o Str(FirstChars(row.message, 50)) \o "..."
                /\ Len(line) <= Len("- " \o row.sender \o ": ") + 50 + 3

\* a 30-character message: its whole text, and still the marker
SummaryLineWitness ==
    /\ pc = "core_done"
    /\ Len(conn.conversations) = 1
    /\ Len(conn.conversations[1].message) = 30
    /\ conn.conversations[1].sender = "Agent"
    /\ summary = <<"Conversation Summary:",
                   "- Agent: 123456789012345678901234567890...">>

EarlierIssuesOf(cust, id) ==
    {i \in DOMAIN conn.issues :
        /\ conn.issues[i].customer_id = cust
        /\ conn.issues[i].id # id}

\* C6: every operation works on the one store created at start, so an
\* issue written by the intake flow stays visible: after an issue of
\* customer C is filed, every later analyze_issue request for C (form or
\* api_endpoint) counts it in past_issues_count, and every later summarize
\* request for its id returns its message.
FiledIssueStaysVisible ==
    lastFiled # NoFiled =>
        /\ (pc = "analyzed" /\ customer_id = lastFiled.customer_id =>
               analysis.past_issues_count
                   >= count_issues(init_db, customer_id) + 1)
        /\ (/\ pc = "responded"
            /\ request.endpoint = "/analyze_issue"
            /\ Get(request.data, "customer_id", "") = lastFiled.customer_id
            /\ response.raised = ""
            => response.data.analysis.past_issues_count
                   >= count_issues(init_db, lastFiled.customer_id) + 1)
        /\ (/\ pc = "responded"
            /\ request.endpoint = "/summarize"
            /\ Get(request.data, "issue_id", 0) = lastFiled.id
            => /\ response.raised = ""
               /\ response.data.summary =
                     <<"Conversation Summary:",
                       summary_line(lastFiled.message, "Customer")>>)

\* C7: every '/analyze_issue' request to api_endpoint, also one without
\* description, customer_id or product_id, completes without raising and
\* returns status success with severity and analysis in data; a missing
\* description is classified Normal, an unknown or missing customer_id or
\* product_id gives a zero count and an empty similar_issues list.
AnalyzeEndpointAnswers ==
    (/\ pc = "responded"
     /\ request.endpoint = "/analyze_issue"
     /\ request.elapsed <= BudgetSeconds)
    => /\ response.raised = ""
       /\ response.status = "success"
       /\ {"severity", "analysis"} \subseteq DOMAIN response.data
       /\ ("issue_description" \notin DOMAIN request.data
              => response.data.severity = "Normal")
       /\ ("customer_id" \notin DOMAIN request.data
              => response.data.analysis.past_issues_count = 0)
       /\ ("product_id" \notin DOMAIN request.data
              => response.data.analysis.similar_issues = << >>)

\* t is s with exactly one element appended
OneAppended(s, t) ==
    /\ Len(t) = Len(s) + 1
    /\ SubSeq(t, 1, Len(s)) = s

\* C8: analyze_issue, generate_template and summarize_conversation leave
\* the store as it was; the only change to a store is the intake write,
\* which adds exactly one issue row and one conversation row and leaves
\* every existing row in place (a run's store is new when init_db makes it).
StoreFrame ==
    [][ /\ (pc \in {"form", "analyzed", "stored"} => conn' = conn)
        /\ (pc = "templated" =>
               /\ OneAppended(conn.issues, conn'.issues)
               /\ OneAppended(conn.conversations, conn'.conversations)
               /\ \A i \in DOMAIN conn.issues :
                     conn'.issues[Len(conn'.issues)].id # conn.issues[i].id)
        /\ (conn' # conn =>
               \/ pc = "templated"
               \/ pc = "idle" /\ conn' = init_db) ]_vars

\* the intake write has happened: a fourth issue, a first conversation row
StoreFrameWitness ==
    /\ pc = "summarized"
    /\ Len(conn.issues) = 4
    /\ Len(conn.conversations) = 1
    /\ conn.issues[4].customer_id = "CUST002"
    /\ conn.conversations[1].issue_id = 4

\* C9: in the form flow the analysis is computed before the insert:
\* past_issues_count is the number of issues of the customer (any status,
\* any severity) in the store before the write and never includes the
\* issue being filed; a customer without issues, known or not, gets 0.
CountBeforeWrite ==
    /\ (pc \in {"analyzed", "templated"} =>
           /\ analysis.past_issues_count =
                 Cardinality(EarlierIssuesOf(customer_id, 0))
           /\ \A i \in DOMAIN conn.issues : conn.issues[i].id # 0)
    /\ (pc \in {"stored", "summarized"} =>
           /\ analysis.past_issues_count =
                 Cardinality(EarlierIssuesOf(customer_id, issue_id))
           /\ \E i \in DOMAIN conn.issues :
                 /\ conn.issues[i].id = issue_id
                 /\ conn.issues[i].customer_id = customer_id)
    /\ (pc \in {"analyzed", "templated", "stored", "summarized"}
           /\ customer_id = "CUST999" => analysis.past_issues_count = 0)

\* a customer with two issues files a third: the count shown is two
CountBeforeWriteWitness ==
    /\ pc = "stored"
    /\ customer_id = "CUST001"
    /\ analysis.past_issues_count = 2
    /\ count_issues(conn, customer_id) = 3

====
